---- MODULE Spec2Model ----
(***************************************************************************)
(* A model of gophertalk-fastapi: the user directory, the post store with  *)
(* its like/view edges, the feed query and the authentication service.     *)
(*                                                                         *)
(* Every repository method issues one SQL statement inside one connection  *)
(* context (one transaction), so a method is one atomic action.  The       *)
(* relational store is modelled by its tables and by the constraints the   *)
(* code's exception handlers name (pk__likes, pk__views, the foreign       *)
(* keys, the unique user name).                                            *)
(***************************************************************************)
EXTENDS Integers, Sequences, FiniteSets, TLC

(* ------------------------------------------------------------------ *)
(* Bounds of the model                                                 *)
(* ------------------------------------------------------------------ *)
MaxUsers == 2
MaxPosts == 1
MaxFeedPosts == 3
MaxTime == 1
MaxClients == 2

(* ------------------------------------------------------------------ *)
(* Values                                                              *)
(* ------------------------------------------------------------------ *)
\* SQL NULL / Python None, one per column type
NoId == 0
NoTime == 0 - 1
None == "None"
NoSearch == <<"None">>
NoVal == <<>>

\* free: the idle connections of the pool; calls: the repository calls in
\* flight, one per client
VARIABLES users, posts, likes, views, now, cfg, ret, free, calls

vars == <<users, posts, likes, views, now, cfg, ret, free, calls>>

\* the clients whose calls run at the same time, and a pool with a connection
\* for each of them
Clients == 1..MaxClients
PoolSize == MaxClients

\* the pool when no repository call is in flight: every connection is idle
\* and every client is between calls
PoolAtRest ==
    /\ free = PoolSize
    /\ calls = [c \in Clients |-> [pc |-> "idle", op |-> None, err |-> None]]

\* a step of a call that is modelled as one atomic step leaves the pool as it was
Quiet == UNCHANGED <<free, calls>>

UserIds == DOMAIN users
PostIds == DOMAIN posts

Min(a, b) == IF a <= b THEN a ELSE b

\* the response of the last operation
Response(op, args, err, val) == [op |-> op, args |-> args, err |-> err, val |-> val]


(* ------------------------------------------------------------------ *)
(* The store: rows and constraints                                     *)
(* ------------------------------------------------------------------ *)
\* a row of `users`; id is the row's index in the table
UserRow(user_name, first_name, last_name, password_hash, t) ==
    [user_name |-> user_name, first_name |-> first_name, last_name |-> last_name,
     password_hash |-> password_hash, status |-> 1,
     created_at |-> t, updated_at |-> t, deleted_at |-> NoTime]

\* a row of `posts`
PostRow(text, user_id, reply_to_id, t) ==
    [text |-> text, user_id |-> user_id, reply_to_id |-> reply_to_id,
     created_at |-> t, deleted_at |-> NoTime]

\* foreign keys of posts: the author and, when given, the parent are rows
\* (soft-deleted rows are still rows)
PostForeignKeysHold(dto) ==
    /\ dto.user_id \in UserIds
    /\ dto.reply_to_id # NoId => dto.reply_to_id \in PostIds

\* foreign keys of likes and views
EdgeForeignKeysHold(post_id, user_id) ==
    post_id \in PostIds /\ user_id \in UserIds

(* ------------------------------------------------------------------ *)
(* PostRepository                                                      *)
(* ------------------------------------------------------------------ *)
\* what create_post returns: RETURNING id, text, user_id, reply_to_id, created_at
CreatedPostDto(id, row) ==
    [id |-> id, text |-> row.text, user_id |-> row.user_id,
     reply_to_id |-> row.reply_to_id, created_at |-> row.created_at]

\* create_post as it would be if an unknown reply target were stored as NULL
create_post_nulling_reply(dto) ==
    /\ IF dto.user_id \in UserIds
       THEN LET parent == IF dto.reply_to_id \in PostIds THEN dto.reply_to_id ELSE NoId
                row == PostRow(dto.text, dto.user_id, parent, now)
            IN /\ posts' = Append(posts, row)
               /\ ret' = Response("create_post", dto, "ok",
                                  CreatedPostDto(Len(posts) + 1, row))
       ELSE /\ posts' = posts
            /\ ret' = Response("create_post", dto, "ReplyToPostDoesNotExistsError", NoVal)
    /\ UNCHANGED <<users, likes, views, now, cfg>>

create_post(dto) ==
    /\ IF PostForeignKeysHold(dto)
       THEN LET row == PostRow(dto.text, dto.user_id, dto.reply_to_id, now)
            IN /\ posts' = Append(posts, row)
               /\ ret' = Response("create_post", dto, "ok",
                                  CreatedPostDto(Len(posts) + 1, row))
       ELSE /\ posts' = posts
            /\ ret' = Response("create_post", dto, "ReplyToPostDoesNotExistsError", NoVal)
    /\ UNCHANGED <<users, likes, views, now, cfg>>

\* delete_post as it would be without the `AND user_id = %s` clause
delete_post_any_owner(post_id, owner_id) ==
    /\ IF post_id \in PostIds /\ posts[post_id].deleted_at = NoTime
       THEN /\ posts' = [posts EXCEPT ![post_id].deleted_at = now]
            /\ ret' = Response("delete_post", <<post_id, owner_id>>, "ok", NoVal)
       ELSE /\ posts' = posts
            /\ ret' = Response("delete_post", <<post_id, owner_id>>, "PostNotFoundError", NoVal)
    /\ UNCHANGED <<users, likes, views, now, cfg>>

delete_post(post_id, owner_id) ==
    /\ IF /\ post_id \in PostIds
          /\ posts[post_id].user_id = owner_id
          /\ posts[post_id].deleted_at = NoTime
       THEN /\ posts' = [posts EXCEPT ![post_id].deleted_at = now]
            /\ ret' = Response("delete_post", <<post_id, owner_id>>, "ok", NoVal)
       ELSE /\ posts' = posts
            /\ ret' = Response("delete_post", <<post_id, owner_id>>, "PostNotFoundError", NoVal)
    /\ UNCHANGED <<users, likes, views, now, cfg>>

\* view_post as it would be without the primary key pk__views
view_post_no_pk(post_id, user_id) ==
    /\ IF ~EdgeForeignKeysHold(post_id, user_id)
       THEN /\ views' = views
            /\ ret' = Response("view_post", <<post_id, user_id>>, "PostRepositoryError", NoVal)
       ELSE /\ views' = views \cup {<<post_id, user_id>>}
            /\ ret' = Response("view_post", <<post_id, user_id>>, "ok", NoVal)
    /\ UNCHANGED <<users, posts, likes, now, cfg>>

view_post(post_id, user_id) ==
    /\ IF ~EdgeForeignKeysHold(post_id, user_id)
       THEN /\ views' = views
            /\ ret' = Response("view_post", <<post_id, user_id>>, "PostRepositoryError", NoVal)
       ELSE IF <<post_id, user_id>> \in views   \* UniqueViolation on pk__views
       THEN /\ views' = views
            /\ ret' = Response("view_post", <<post_id, user_id>>, "PostAlreadyViewedError", NoVal)
       ELSE /\ views' = views \cup {<<post_id, user_id>>}
            /\ ret' = Response("view_post", <<post_id, user_id>>, "ok", NoVal)
    /\ UNCHANGED <<users, posts, likes, now, cfg>>

\* like_post as it would be without the primary key pk__likes
like_post_no_pk(post_id, user_id) ==
    /\ IF ~EdgeForeignKeysHold(post_id, user_id)
       THEN /\ likes' = likes
            /\ ret' = Response("like_post", <<post_id, user_id>>, "PostRepositoryError", NoVal)
       ELSE /\ likes' = likes \cup {<<post_id, user_id>>}
            /\ ret' = Response("like_post", <<post_id, user_id>>, "ok", NoVal)
    /\ UNCHANGED <<users, posts, views, now, cfg>>

\* like_post as it would be without the foreign keys of likes
like_post_no_fk(post_id, user_id) ==
    /\ IF <<post_id, user_id>> \in likes
       THEN /\ likes' = likes
            /\ ret' = Response("like_post", <<post_id, user_id>>, "PostAlreadyLikedError", NoVal)
       ELSE /\ likes' = likes \cup {<<post_id, user_id>>}
            /\ ret' = Response("like_post", <<post_id, user_id>>, "ok", NoVal)
    /\ UNCHANGED <<users, posts, views, now, cfg>>

like_post(post_id, user_id) ==
    /\ IF ~EdgeForeignKeysHold(post_id, user_id)
       THEN /\ likes' = likes
            /\ ret' = Response("like_post", <<post_id, user_id>>, "PostRepositoryError", NoVal)
       ELSE IF <<post_id, user_id>> \in likes   \* UniqueViolation on pk__likes
       THEN /\ likes' = likes
            /\ ret' = Response("like_post", <<post_id, user_id>>, "PostAlreadyLikedError", NoVal)
       ELSE /\ likes' = likes \cup {<<post_id, user_id>>}
            /\ ret' = Response("like_post", <<post_id, user_id>>, "ok", NoVal)
    /\ UNCHANGED <<users, posts, views, now, cfg>>

\* dislike_post as it would be if it checked rowcount like delete_post does
dislike_post_strict(post_id, user_id) ==
    /\ likes' = likes \ {<<post_id, user_id>>}
    /\ ret' = Response("dislike_post", <<post_id, user_id>>,
                       IF <<post_id, user_id>> \in likes THEN "ok" ELSE "PostNotFoundError",
                       NoVal)
    /\ UNCHANGED <<users, posts, views, now, cfg>>

dislike_post(post_id, user_id) ==
    /\ likes' = likes \ {<<post_id, user_id>>}
    /\ ret' = Response("dislike_post", <<post_id, user_id>>, "ok", NoVal)
    /\ UNCHANGED <<users, posts, views, now, cfg>>

(* ------------------------------------------------------------------ *)
(* The feed query                                                      *)
(* ------------------------------------------------------------------ *)
Lower(c) == IF c = "A" THEN "a" ELSE IF c = "B" THEN "b" ELSE c

\* SQL LIKE on lower-cased operands: % is any run of characters, _ any one
RECURSIVE Like(_, _)
Like(pat, s) ==
    IF pat = <<>> THEN s = <<>>
    ELSE IF Head(pat) = "%" THEN Like(Tail(pat), s) \/ (s # <<>> /\ Like(pat, Tail(s)))
    ELSE IF s = <<>> THEN FALSE
    ELSE IF Head(pat) = "_" THEN Like(Tail(pat), Tail(s))
    ELSE Lower(Head(pat)) = Lower(Head(s)) /\ Like(Tail(pat), Tail(s))

\* p.text ILIKE f"%{dto.search}%"
ILikeSearch(text, search) == Like(<<"%">> \o search \o <<"%">>, text)

\* the CTEs likes_count, views_count and replies_count, COALESCEd to 0
LikesCount(p) == Cardinality({e \in likes : e[1] = p})
ViewsCount(p) == Cardinality({e \in views : e[1] = p})
RepliesCount(p) == Cardinality({q \in PostIds : posts[q].reply_to_id = p})

\* one row of the SELECT for post p and the viewer
SelectRow(p, viewer) ==
    LET u == posts[p].user_id
    IN [id |-> p, text |-> posts[p].text, reply_to_id |-> posts[p].reply_to_id,
        created_at |-> posts[p].created_at,
        user_id |-> u, user_name |-> users[u].user_name,
        first_name |-> users[u].first_name, last_name |-> users[u].last_name,
        likes_count |-> LikesCount(p), views_count |-> ViewsCount(p),
        replies_count |-> RepliesCount(p),
        user_liked |-> <<p, viewer>> \in likes,
        user_viewed |-> <<p, viewer>> \in views]

\* ReadPostDto(...) built from a row: the dataclass has no replies_count,
\* user_liked or user_viewed field, so these keyword arguments are dropped
ReadPostDto(row) ==
    [id |-> row.id, text |-> row.text, user_id |-> row.user_id,
     reply_to_id |-> row.reply_to_id, created_at |-> row.created_at,
     likes_count |-> row.likes_count, views_count |-> row.views_count,
     user |-> [id |-> row.user_id, user_name |-> row.user_name,
               first_name |-> row.first_name, last_name |-> row.last_name]]

\* the WHERE clause as it would be without `p.deleted_at IS NULL`
FeedWhere_keep_deleted(dto, p) ==
    /\ posts[p].user_id \in UserIds
    /\ dto.search # NoSearch => ILikeSearch(posts[p].text, dto.search)
    /\ dto.owner_id # NoId => posts[p].user_id = dto.owner_id
    /\ IF dto.reply_to_id # NoId
       THEN posts[p].reply_to_id = dto.reply_to_id
       ELSE posts[p].reply_to_id = NoId

\* FROM posts p JOIN users u ... WHERE p.deleted_at IS NULL, then the optional clauses
FeedWhere(dto, p) ==
    /\ posts[p].user_id \in UserIds
    /\ posts[p].deleted_at = NoTime
    /\ dto.search # NoSearch => ILikeSearch(posts[p].text, dto.search)
    /\ dto.owner_id # NoId => posts[p].user_id = dto.owner_id
    /\ IF dto.reply_to_id # NoId
       THEN posts[p].reply_to_id = dto.reply_to_id
       ELSE posts[p].reply_to_id = NoId

\* the ORDER BY as it would be if a thread were listed newest first too
FeedOrdered_always_desc(dto, s) ==
    \A i, j \in DOMAIN s : i < j =>
        posts[s[i]].created_at >= posts[s[j]].created_at

\* ORDER BY p.created_at ASC for a thread, DESC for the main feed
FeedOrdered(dto, s) ==
    \A i, j \in DOMAIN s : i < j =>
        IF dto.reply_to_id # NoId
        THEN posts[s[i]].created_at <= posts[s[j]].created_at
        ELSE posts[s[i]].created_at >= posts[s[j]].created_at

Orderings(S) ==
    {s \in [1..Cardinality(S) -> S] : \A i, j \in DOMAIN s : i # j => s[i] # s[j]}

\* OFFSET %s LIMIT %s
OffsetLimit(s, offset, limit) ==
    IF offset >= Len(s) THEN <<>>
    ELSE SubSeq(s, offset + 1, Min(offset + limit, Len(s)))

\* the id lists the query may return: rows with equal created_at come in any order
FeedIdLists(dto) ==
    LET matching == {p \in PostIds : FeedWhere(dto, p)}
    IN {OffsetLimit(s, dto.offset, dto.limit) :
            s \in {t \in Orderings(matching) : FeedOrdered(dto, t)}}

get_all_posts(dto) ==
    /\ \E ids \in FeedIdLists(dto) :
          ret' = Response("get_all_posts", dto, "ok",
                          [i \in DOMAIN ids |-> ReadPostDto(SelectRow(ids[i], dto.user_id))])
    /\ UNCHANGED <<users, posts, likes, views, now, cfg>>

get_post_by_id(post_id, user_id) ==
    /\ IF /\ post_id \in PostIds
          /\ posts[post_id].user_id \in UserIds
          /\ posts[post_id].deleted_at = NoTime
       THEN ret' = Response("get_post_by_id", <<post_id, user_id>>, "ok",
                            ReadPostDto(SelectRow(post_id, user_id)))
       ELSE ret' = Response("get_post_by_id", <<post_id, user_id>>, "PostNotFoundError", NoVal)
    /\ UNCHANGED <<users, posts, likes, views, now, cfg>>

(* ------------------------------------------------------------------ *)
(* Password hashes                                                     *)
(* ------------------------------------------------------------------ *)
\* A hash value is [kind, salt, pw]; kind is the Python/SQL form it is in:
\*   "bytes"  the bytes bcrypt.hashpw returns
\*   "str"    their text, bytes.decode()
\*   "hexstr" the text a bytea value turns into when it is assigned to a text
\*            column ('\x2432...'), "hexbytes" its encoding
\*   "raw"    any other client string, "rawbytes" its encoding
NoHash == [kind |-> "none", salt |-> 0, pw |-> None]

\* bcrypt.hashpw(password.encode(), salt)
hashpw(pw, salt) == [kind |-> "bytes", salt |-> salt, pw |-> pw]

\* bytes.decode()
decode(b) == [b EXCEPT !.kind = "str"]

\* str.encode()
encode(v) ==
    [v EXCEPT !.kind = IF v.kind = "str" THEN "bytes"
                       ELSE IF v.kind = "hexstr" THEN "hexbytes" ELSE "rawbytes"]

\* bcrypt.checkpw(password, hashed): rehash with the salt of `hashed` and compare;
\* a `hashed` that is no bcrypt hash raises ValueError("Invalid salt")
checkpw(pw, hashed) ==
    IF hashed.kind # "bytes" THEN "ValueError"
    ELSE IF hashpw(pw, hashed.salt) = hashed THEN "True" ELSE "False"

\* What the password_hash column holds after the driver is handed v.  A str is
\* sent as text.  bytes are sent as bytea: a text column takes the bytea's text
\* form ('\\x2432...'), a bytea column gives the bytes back and the str field of
\* the DTO decodes them.
PasswordColumnForms(v) ==
    IF v.kind = "bytes" THEN {decode(v), [v EXCEPT !.kind = "hexstr"]} ELSE {v}

(* ------------------------------------------------------------------ *)
(* Tokens                                                              *)
(* ------------------------------------------------------------------ *)
\* str(user_id)
Str(n) == <<"str", n>>

\* jose.jwt.encode(claims, key, algorithm): the signature is the MAC of the
\* claims under the key, kept here as the key that made it
jwt_encode(claims, key, algorithm) ==
    [claims |-> claims, key |-> key, alg |-> algorithm]

\* jwt.decode as it would be if it did not look at exp
jwt_raises_no_expiry(token, key, algorithms, t) ==
    \/ token.key # key
    \/ token.alg \notin algorithms

\* jose.jwt.decode(token, key, algorithms) at time t raises JWTError when the
\* signature does not verify or the token has expired (exp < now)
jwt_raises(token, key, algorithms, t) ==
    \/ token.key # key
    \/ token.alg \notin algorithms
    \/ token.claims.exp < t

\* jose.jwt.decode(token, key, algorithms) at time t: "JWTError" or the claims
jwt_decode(token, key, algorithms, t) ==
    IF jwt_raises(token, key, algorithms, t) THEN "JWTError" ELSE token.claims

generate_token_pair(user_id) ==
    [access_token |->
        jwt_encode([sub |-> Str(user_id), exp |-> now + cfg.access_token_expires,
                    type |-> "access"],
                   cfg.access_token_secret, cfg.hash_algorithm),
     refresh_token |->
        jwt_encode([sub |-> Str(user_id), exp |-> now + cfg.refresh_token_expires,
                    type |-> "refresh"],
                   cfg.refresh_token_secret, cfg.hash_algorithm)]

(* ------------------------------------------------------------------ *)
(* UserRepository                                                      *)
(* ------------------------------------------------------------------ *)
LiveUsers == {u \in UserIds : users[u].deleted_at = NoTime}

\* the unique index on users.user_name covers the rows that are not soft-deleted
UserNameTaken(user_name, except) ==
    \E u \in LiveUsers : u # except /\ users[u].user_name = user_name

\* RETURNING id, user_name, password_hash, status
ReadAuthUserDataDto(id, row) ==
    [id |-> id, user_name |-> row.user_name,
     password_hash |-> row.password_hash, status |-> row.status]

\* id, user_name, first_name, last_name, status, created_at, updated_at of a row
ReadUserDto(id, row) ==
    [id |-> id, user_name |-> row.user_name, first_name |-> row.first_name,
     last_name |-> row.last_name, status |-> row.status,
     created_at |-> row.created_at, updated_at |-> row.updated_at]

\* the lookup by name as it would be without `deleted_at IS NULL`
UsersByName_with_deleted(user_name) ==
    {u \in UserIds : users[u].user_name = user_name}

\* SELECT ... WHERE user_name = %s AND deleted_at IS NULL; fetchone()
UsersByName(user_name) ==
    {u \in LiveUsers : users[u].user_name = user_name}

\* get_user_by_username: the auth data of a live user of that name, or not found
get_user_by_username(user_name) ==
    /\ IF UsersByName(user_name) = {}
       THEN ret' = Response("get_user_by_username", user_name, "UserNotFoundError", NoVal)
       ELSE \E u \in UsersByName(user_name) :
               ret' = Response("get_user_by_username", user_name, "ok",
                               ReadAuthUserDataDto(u, users[u]))
    /\ UNCHANGED <<users, posts, likes, views, now, cfg>>

get_user_by_id(user_id) ==
    /\ IF user_id \in LiveUsers
       THEN ret' = Response("get_user_by_id", user_id, "ok", ReadUserDto(user_id, users[user_id]))
       ELSE ret' = Response("get_user_by_id", user_id, "UserNotFoundError", NoVal)
    /\ UNCHANGED <<users, posts, likes, views, now, cfg>>

\* SELECT ... WHERE deleted_at IS NULL OFFSET %s LIMIT %s: no ORDER BY, so the
\* store returns the live rows in any order
get_all_users(limit, offset) ==
    /\ \E s \in Orderings(LiveUsers) :
          ret' = Response("get_all_users", <<limit, offset>>, "ok",
                          LET page == OffsetLimit(s, offset, limit)
                          IN [i \in DOMAIN page |-> ReadUserDto(page[i], users[page[i]])])
    /\ UNCHANGED <<users, posts, likes, views, now, cfg>>

delete_user(user_id) ==
    /\ IF user_id \in LiveUsers
       THEN /\ users' = [users EXCEPT ![user_id].deleted_at = now]
            /\ ret' = Response("delete_user", user_id, "ok", NoVal)
       ELSE /\ users' = users
            /\ ret' = Response("delete_user", user_id, "UserNotFoundError", NoVal)
    /\ UNCHANGED <<posts, likes, views, now, cfg>>

\* the SET list as it would be if every field of the dto were written, None included
UpdatedUserRow_every_field(row, dto, stored_hash) ==
    [row EXCEPT
        !.password_hash = IF dto.password_hash # NoHash THEN stored_hash ELSE @,
        !.user_name = IF dto.user_name # None THEN dto.user_name ELSE @,
        !.first_name = dto.first_name,
        !.last_name = dto.last_name,
        !.updated_at = now]

\* the SET list of update_user: only the fields the dto supplies, and updated_at
UpdatedUserRow(row, dto, stored_hash) ==
    [row EXCEPT
        !.password_hash = IF dto.password_hash # NoHash THEN stored_hash ELSE @,
        !.user_name = IF dto.user_name # None THEN dto.user_name ELSE @,
        !.first_name = IF dto.first_name # None THEN dto.first_name ELSE @,
        !.last_name = IF dto.last_name # None THEN dto.last_name ELSE @,
        !.updated_at = now]

\* UserRepository.update_user(user_id, dto), answering as operation `op` with `args`
update_user(op, args, user_id, dto) ==
    /\ IF user_id \notin LiveUsers
       THEN /\ users' = users
            /\ ret' = Response(op, args, "UserNotFoundError", NoVal)
       ELSE IF dto.user_name # None /\ UserNameTaken(dto.user_name, user_id)
       THEN /\ users' = users      \* UniqueViolation, caught as psycopg.errors.Error
            /\ ret' = Response(op, args, "UserRepositoryError", NoVal)
       ELSE \E stored \in PasswordColumnForms(dto.password_hash) :
               LET row == UpdatedUserRow(users[user_id], dto, stored)
               IN /\ users' = [users EXCEPT ![user_id] = row]
                  /\ ret' = Response(op, args, "ok", ReadUserDto(user_id, row))
    /\ UNCHANGED <<posts, likes, views, now, cfg>>

(* ------------------------------------------------------------------ *)
(* UserService and AuthService                                         *)
(* ------------------------------------------------------------------ *)
\* UserService.update: a new password is hashed and the plaintext fields cleared
HandedDto(dto, salt) ==
    IF dto.password # None
    THEN [dto EXCEPT !.password_hash = hashpw(dto.password, salt),
                     !.password = None, !.password_confirm = None]
    ELSE dto

update(user_id, dto, salt) ==
    update_user("update", [user_id |-> user_id, dto |-> dto, handed |-> HandedDto(dto, salt)],
                user_id, HandedDto(dto, salt))

\* AuthService.login
login(dto) ==
    /\ IF UsersByName(dto.user_name) = {}
       THEN ret' = Response("login", dto, "UserNotFoundError", NoVal)
       ELSE \E u \in UsersByName(dto.user_name) :
               LET check == checkpw(dto.password, encode(users[u].password_hash))
               IN IF check = "ValueError"
                  THEN ret' = Response("login", dto, "ValueError", NoVal)
                  ELSE IF check = "False"
                  THEN ret' = Response("login", dto, "WrongPasswordError", NoVal)
                  ELSE ret' = Response("login", dto, "ok", generate_token_pair(u))
    /\ UNCHANGED <<users, posts, likes, views, now, cfg>>

\* AuthService.register: hash, build the CreateUserDto (its first_name and
\* last_name are declared str, so None is refused), create_user, issue tokens
register(dto, salt) ==
    /\ IF dto.first_name = None \/ dto.last_name = None
       THEN /\ users' = users
            /\ ret' = Response("register", dto, "ValidationError", NoVal)
       ELSE IF UserNameTaken(dto.user_name, NoId)
       THEN /\ users' = users      \* UniqueViolation in create_user
            /\ ret' = Response("register", dto, "UserAlreadyExistsError", NoVal)
       ELSE /\ users' = Append(users,
                          UserRow(dto.user_name, dto.first_name, dto.last_name,
                                  decode(hashpw(dto.password, salt)), now))
            /\ ret' = Response("register", dto, "ok", generate_token_pair(Len(users) + 1))
    /\ UNCHANGED <<posts, likes, views, now, cfg>>

(* ------------------------------------------------------------------ *)
(* Configuration                                                       *)
(* ------------------------------------------------------------------ *)
\* Config(): both secrets default to "changeme"; a deployment sets its own.
\* The expiry times are in ticks of the model's clock.
DeployedConfig ==
    [access_token_secret |-> "access_secret", refresh_token_secret |-> "refresh_secret",
     access_token_expires |-> 1, refresh_token_expires |-> 2, hash_algorithm |-> "HS256"]

DefaultConfig ==
    [access_token_secret |-> "changeme", refresh_token_secret |-> "changeme",
     access_token_expires |-> 1, refresh_token_expires |-> 2, hash_algorithm |-> "HS256"]

(* ------------------------------------------------------------------ *)
(* Inputs                                                              *)
(* ------------------------------------------------------------------ *)
Passwords == {"Qwerty123!", "Qwerty321!"}
Salts == {1}

\* users that registered before the run starts
SeedUsers ==
    <<UserRow("alice", "Alice", "Smith", decode(hashpw("Qwerty123!", 1)), 0),
      UserRow("bobby", "Bob", "Jones", decode(hashpw("Qwerty321!", 1)), 0)>>

NoResponse == Response("none", NoVal, "ok", NoVal)

(* ------------------------------------------------------------------ *)
(* Spec: the post store and its like and view edges                    *)
(* ------------------------------------------------------------------ *)
Init ==
    /\ users = SeedUsers
    /\ posts = <<>>
    /\ likes = {}
    /\ views = {}
    /\ now = 0
    /\ PoolAtRest
    /\ cfg = DefaultConfig
    /\ ret = NoResponse

\* the ids the clients send: rows that can exist (absent until created) and,
\* for users, one id that no row has
SomePostIds == 1..MaxPosts
SeedUserIds == DOMAIN SeedUsers
SomeUserIds == 1..(Len(SeedUsers) + 1)
\* the users that record views: one user of the store and the absent one
Viewers == {1, Len(SeedUsers) + 1}

ThreadFilters ==
    [search : {NoSearch}, owner_id : {NoId}, user_id : SeedUserIds,
     reply_to_id : {NoId, 1}, limit : {MaxPosts}, offset : {0}]

CreatePost ==
    \E u \in SomeUserIds, r \in 0..MaxPosts :
        /\ Len(posts) < MaxPosts
        /\ create_post([text |-> <<"a">>, user_id |-> u, reply_to_id |-> r])

DeletePost == \E p \in SomePostIds, o \in SeedUserIds : delete_post(p, o)

ViewPost == \E p \in SomePostIds, u \in Viewers : view_post(p, u)

LikePost == \E p \in SomePostIds, u \in SomeUserIds : like_post(p, u)

DislikePost == \E p \in SomePostIds, u \in SomeUserIds : dislike_post(p, u)

GetPostById == \E p \in SomePostIds, u \in SeedUserIds : get_post_by_id(p, u)

GetAllPosts == \E dto \in ThreadFilters : get_all_posts(dto)

Next ==
    \/ CreatePost /\ Quiet
    \/ DeletePost /\ Quiet
    \/ ViewPost /\ Quiet
    \/ LikePost /\ Quiet
    \/ DislikePost /\ Quiet
    \/ GetPostById /\ Quiet
    \/ GetAllPosts /\ Quiet

Spec == Init /\ [][Next]_vars

(* ------------------------------------------------------------------ *)
(* Properties of the post store, checked under Spec                    *)
(* ------------------------------------------------------------------ *)
Range(s) == {s[i] : i \in DOMAIN s}

\* C1: like_post on a pair of existing rows without a Like edge succeeds and
\* adds the edge; on a pair that has the edge it fails with
\* PostAlreadyLikedError and leaves the edge as it is; dislike_post removes
\* the edge, after which the pair is again without an edge and like_post
\* succeeds as in the first case.
LikeDislikeCycle ==
    [][LET p == ret'.args[1]
           u == ret'.args[2]
       IN /\ ret'.op = "like_post" =>
                /\ (EdgeForeignKeysHold(p, u) /\ <<p, u>> \notin likes) =>
                       (ret'.err = "ok" /\ likes' = likes \cup {<<p, u>>})
                /\ <<p, u>> \in likes =>
                       (ret'.err = "PostAlreadyLikedError" /\ likes' = likes)
          /\ ret'.op = "dislike_post" =>
                (ret'.err = "ok" /\ likes' = likes \ {<<p, u>>})
      ]_vars

SecondLikeRefused ==
    /\ ret.op = "like_post"
    /\ ret.err = "PostAlreadyLikedError"
    /\ <<ret.args[1], ret.args[2]>> \in likes

\* C2: the first view_post on a pair of existing rows succeeds and adds the
\* View edge, a view_post on a pair that has the edge fails with
\* PostAlreadyViewedError, and no step removes a View edge.
ViewOnceForever ==
    [][/\ views \subseteq views'
       /\ ret'.op = "view_post" =>
             LET p == ret'.args[1]
                 u == ret'.args[2]
             IN /\ (EdgeForeignKeysHold(p, u) /\ <<p, u>> \notin views) =>
                       (ret'.err = "ok" /\ views' = views \cup {<<p, u>>})
                /\ <<p, u>> \in views =>
                       (ret'.err = "PostAlreadyViewedError" /\ views' = views)
      ]_vars

SecondViewRefused ==
    /\ ret.op = "view_post"
    /\ ret.err = "PostAlreadyViewedError"
    /\ <<ret.args[1], ret.args[2]>> \in views

\* C3: delete_post(post_id, owner_id) stamps deleted_at of the post, and
\* changes nothing else, exactly when the post exists, is live and is
\* owner_id's; otherwise it fails with PostNotFoundError and changes nothing.
\* A deleted post stays deleted, so the owner's second delete fails.
DeletePostOwnerOnce ==
    [][/\ \A q \in PostIds :
             posts[q].deleted_at # NoTime => posts'[q].deleted_at = posts[q].deleted_at
       /\ ret'.op = "delete_post" =>
             LET p == ret'.args[1]
                 o == ret'.args[2]
             IN /\ UNCHANGED <<users, likes, views>>
                /\ IF /\ p \in PostIds
                      /\ posts[p].deleted_at = NoTime
                      /\ posts[p].user_id = o
                   THEN /\ ret'.err = "ok"
                        /\ posts'[p].deleted_at # NoTime
                        /\ posts' = [posts EXCEPT ![p].deleted_at = posts'[p].deleted_at]
                   ELSE /\ ret'.err = "PostNotFoundError"
                        /\ posts' = posts
      ]_vars

SecondDeleteRefused ==
    /\ ret.op = "delete_post"
    /\ ret.err = "PostNotFoundError"
    /\ ret.args[1] \in PostIds
    /\ posts[ret.args[1]].user_id = ret.args[2]
    /\ posts[ret.args[1]].deleted_at # NoTime

ForeignDeleteRefused ==
    /\ ret.op = "delete_post"
    /\ ret.err = "PostNotFoundError"
    /\ ret.args[1] \in PostIds
    /\ posts[ret.args[1]].user_id # ret.args[2]
    /\ posts[ret.args[1]].deleted_at = NoTime

\* every filter of the model, for the properties that quantify over filters
AllFilters ==
    [search : {NoSearch, <<"a">>}, owner_id : {NoId} \cup SeedUserIds, user_id : SeedUserIds,
     reply_to_id : 0..MaxPosts, limit : 1..MaxPosts, offset : 0..1]

\* C5: a soft-deleted post is in no list get_all_posts can return, whatever
\* the filter and the viewer, and get_post_by_id on it fails with
\* PostNotFoundError, whichever Like and View edges it has; and a soft-deleted
\* post is never live again.
DeletedPostInvisible ==
    /\ [](\A p \in PostIds : posts[p].deleted_at # NoTime =>
            /\ \A dto \in AllFilters : \A ids \in FeedIdLists(dto) : p \notin Range(ids)
            /\ (ret.op = "get_all_posts" =>
                    \A i \in DOMAIN ret.val : ret.val[i].id # p)
            /\ (ret.op = "get_post_by_id" /\ ret.args[1] = p =>
                    ret.err = "PostNotFoundError"))
    /\ [][\A p \in PostIds : posts[p].deleted_at # NoTime =>
              (p \in DOMAIN posts' /\ posts'[p].deleted_at # NoTime)]_vars

DeletedLikedPostQueried ==
    /\ ret.op = "get_post_by_id"
    /\ ret.err = "PostNotFoundError"
    /\ ret.args[1] \in PostIds
    /\ \E e \in likes : e[1] = ret.args[1]
    /\ \E e \in views : e[1] = ret.args[1]

\* C6: create_post with a reply_to_id that is no row of posts fails with
\* ReplyToPostDoesNotExistsError and adds no post; create_post with no
\* reply_to_id by an existing author succeeds and appends exactly one
\* top-level post.
CreatePostReplyTarget ==
    [][ret'.op = "create_post" =>
          LET dto == ret'.args
          IN /\ (dto.reply_to_id # NoId /\ dto.reply_to_id \notin PostIds) =>
                    (ret'.err = "ReplyToPostDoesNotExistsError" /\ posts' = posts)
             /\ (dto.reply_to_id = NoId /\ dto.user_id \in UserIds) =>
                    /\ ret'.err = "ok"
                    /\ posts' = Append(posts, posts'[Len(posts')])
                    /\ posts'[Len(posts')].reply_to_id = NoId
                    /\ posts'[Len(posts')].user_id = dto.user_id
                    /\ posts'[Len(posts')].text = dto.text
                    /\ posts'[Len(posts')].deleted_at = NoTime
      ]_vars

ReplyToMissingPostRefused ==
    /\ ret.op = "create_post"
    /\ ret.err = "ReplyToPostDoesNotExistsError"
    /\ ret.args.reply_to_id # NoId
    /\ ret.args.reply_to_id \notin PostIds
    /\ ret.args.user_id \in UserIds

(* ------------------------------------------------------------------ *)
(* SpecFeed: posts with texts and creation times, and the feed query   *)
(* ------------------------------------------------------------------ *)
\* the database clock NOW() advances between statements
Tick ==
    /\ now < MaxTime
    /\ now' = now + 1
    /\ ret' = Response("tick", NoVal, "ok", NoVal)
    /\ UNCHANGED <<users, posts, likes, views, cfg>>

\* the posts the feed's clients write: a text and its author
FeedTexts == {<<<<"A">>, 1>>, <<<<"b">>, 2>>}

FeedFilters ==
    [search : {NoSearch, <<"a">>}, owner_id : {NoId, 1}, user_id : {1},
     reply_to_id : {NoId, 1}, limit : {1, MaxFeedPosts}, offset : {0, 1}]

FeedCreatePost ==
    \E tu \in FeedTexts, r \in {NoId, 1} :
        /\ Len(posts) < MaxFeedPosts
        /\ create_post([text |-> tu[1], user_id |-> tu[2], reply_to_id |-> r])

FeedDeletePost == \E p \in 1..MaxFeedPosts, o \in SeedUserIds : delete_post(p, o)

FeedGetAllPosts == \E dto \in FeedFilters : get_all_posts(dto)

NextFeed ==
    \/ Tick /\ Quiet
    \/ FeedCreatePost /\ Quiet
    \/ FeedDeletePost /\ Quiet
    \/ FeedGetAllPosts /\ Quiet

SpecFeed == Init /\ [][NextFeed]_vars

\* C4: the list get_all_posts returns is a page of the ordered list of
\* matching posts: the live posts that pass the owner_id and search filters
\* and are replies to reply_to_id when it is given, top-level posts when it is
\* not, ordered by created_at ascending in the first case and descending in
\* the second; the page skips offset rows and keeps at most limit rows.
FeedListExact ==
    ret.op = "get_all_posts" =>
        LET dto == ret.args
            ids == [i \in DOMAIN ret.val |-> ret.val[i].id]
            thread == dto.reply_to_id # NoId
            matching ==
                {p \in PostIds :
                    /\ posts[p].deleted_at = NoTime
                    /\ (dto.owner_id = NoId \/ posts[p].user_id = dto.owner_id)
                    /\ (dto.search = NoSearch \/ ILikeSearch(posts[p].text, dto.search))
                    /\ posts[p].reply_to_id = (IF thread THEN dto.reply_to_id ELSE NoId)}
            sorted(s) ==
                \A i \in 1..(Len(s) - 1) :
                    IF thread
                    THEN posts[s[i]].created_at <= posts[s[i + 1]].created_at
                    ELSE posts[s[i]].created_at >= posts[s[i + 1]].created_at
        IN /\ ret.err = "ok"
           /\ \E s \in Orderings(matching) :
                 /\ sorted(s)
                 /\ ids = SubSeq(s, dto.offset + 1, Min(dto.offset + dto.limit, Len(s)))

\* a thread page that skips the oldest reply and returns a newer one
ThreadPageReturned ==
    /\ ret.op = "get_all_posts"
    /\ ret.args.reply_to_id # NoId
    /\ ret.args.offset = 1
    /\ Len(ret.val) = 1
    /\ \E q \in PostIds :
          /\ posts[q].reply_to_id = ret.args.reply_to_id
          /\ posts[q].deleted_at = NoTime
          /\ posts[q].created_at < ret.val[1].created_at

(* ------------------------------------------------------------------ *)
(* SpecUser: registration, login and the user directory                *)
(* ------------------------------------------------------------------ *)
\* a password_hash a client of PUT /users/{id} writes into the request body
ClientHash == [kind |-> "raw", salt |-> 0, pw |-> "x"]

LoginNames == {"alice", "bobby"}

\* valid registrations: with both names, and one that leaves the optional names out
RegisterDtos ==
    {[user_name |-> n, password |-> pw, password_confirm |-> pw,
      first_name |-> "John", last_name |-> "Doe"] : n \in LoginNames, pw \in Passwords}
    \cup {[user_name |-> "alice", password |-> "Qwerty123!", password_confirm |-> "Qwerty123!",
           first_name |-> None, last_name |-> None]}

LoginDtos == [user_name : LoginNames, password : Passwords]

\* request bodies of PUT /users/{id}: a rename and/or a new password, or a
\* password_hash written by the client
UpdateDtos ==
    {[user_name |-> n, first_name |-> None, last_name |-> None,
      password |-> pw, password_confirm |-> pw, password_hash |-> NoHash] :
        n \in {None, "bobby"}, pw \in {None} \cup Passwords}
    \cup {[user_name |-> None, first_name |-> None, last_name |-> None,
           password |-> None, password_confirm |-> None, password_hash |-> ClientHash]}

InitUser ==
    /\ users = <<>>
    /\ posts = <<>>
    /\ likes = {}
    /\ views = {}
    /\ now = 0
    /\ PoolAtRest
    /\ cfg = DeployedConfig
    /\ ret = NoResponse

Register ==
    \E dto \in RegisterDtos, salt \in Salts :
        /\ Len(users) < MaxUsers
        /\ register(dto, salt)

Login == \E dto \in LoginDtos : login(dto)

Update == \E u \in 1..MaxUsers, dto \in UpdateDtos, salt \in Salts : update(u, dto, salt)

DeleteUser == \E u \in 1..MaxUsers : delete_user(u)

GetUserById == \E u \in 1..MaxUsers : get_user_by_id(u)

GetUserByUsername == \E n \in LoginNames : get_user_by_username(n)

GetAllUsers ==
    \E limit \in 1..MaxUsers, offset \in 0..(MaxUsers - 1) : get_all_users(limit, offset)

NextUser ==
    \/ Register /\ Quiet
    \/ Login /\ Quiet
    \/ Update /\ Quiet
    \/ DeleteUser /\ Quiet
    \/ GetUserById /\ Quiet
    \/ GetUserByUsername /\ Quiet
    \/ GetAllUsers /\ Quiet

SpecUser == InitUser /\ [][NextUser]_vars

\* the password verifies against the hash a row stores, as login computes it
Verifies(pw, row) == checkpw(pw, encode(row.password_hash)) = "True"

\* the subject a token decodes to under the key of its kind, now
Subject(token, key) == jwt_decode(token, key, {cfg.hash_algorithm}, now).sub

AccessSubject(pair) == Subject(pair.access_token, cfg.access_token_secret)
RefreshSubject(pair) == Subject(pair.refresh_token, cfg.refresh_token_secret)

\* C7: login with the user name of a live user and a password that does not
\* match the stored hash fails with WrongPasswordError and returns no token;
\* login with a user name no live user has fails with UserNotFoundError.
LoginWrongPassword ==
    [][ret'.op = "login" =>
          LET dto == ret'.args
              named == {u \in LiveUsers : users[u].user_name = dto.user_name}
          IN /\ named = {} => ret'.err = "UserNotFoundError"
             /\ \A u \in named : ~Verifies(dto.password, users[u]) =>
                    (ret'.err = "WrongPasswordError" /\ ret'.val = NoVal)
      ]_vars

\* C8: register with a user name no live user holds succeeds and creates one
\* user; the tokens it returns decode to the new user's id; and a login with
\* the user name and the password of a registered row succeeds with tokens
\* that decode to that user's id.
RegisterThenLogin ==
    [][/\ (ret'.op = "register" /\ ~UserNameTaken(ret'.args.user_name, NoId)) =>
             /\ ret'.err = "ok"
             /\ Len(users') = Len(users) + 1
             /\ users'[Len(users')].user_name = ret'.args.user_name
             /\ AccessSubject(ret'.val) = Str(Len(users'))
             /\ RefreshSubject(ret'.val) = Str(Len(users'))
       /\ ret'.op = "login" =>
             \A u \in LiveUsers :
                (/\ users[u].user_name = ret'.args.user_name
                 /\ \E salt \in Salts :
                       users[u].password_hash = decode(hashpw(ret'.args.password, salt))) =>
                    /\ ret'.err = "ok"
                    /\ AccessSubject(ret'.val) = Str(u)
                    /\ RefreshSubject(ret'.val) = Str(u)
      ]_vars

DeletedUsers == {u \in UserIds : users[u].deleted_at # NoTime}

\* the ids of the users a response returns
ReturnedUserIds(r) ==
    IF r.err # "ok" THEN {}
    ELSE IF r.op \in {"get_user_by_id", "get_user_by_username", "update"} THEN {r.val.id}
    ELSE IF r.op = "get_all_users" THEN {r.val[i].id : i \in DOMAIN r.val}
    ELSE {}

\* C9, as stated: once a user is soft-deleted, get_user_by_id, update_user
\* and delete_user on its id and get_user_by_username on its name fail with
\* UserNotFoundError, get_all_users does not return it, and login with its
\* user name and password returns no token.
DeletedUserLookupsFail ==
    [][\A u \in DeletedUsers :
          /\ u \in DOMAIN users' /\ users'[u].deleted_at # NoTime
          /\ (ret'.op = "get_user_by_id" /\ ret'.args = u) =>
                ret'.err = "UserNotFoundError"
          /\ (ret'.op = "get_user_by_username" /\ ret'.args = users[u].user_name) =>
                ret'.err = "UserNotFoundError"
          /\ (ret'.op = "update" /\ ret'.args.user_id = u) =>
                ret'.err = "UserNotFoundError"
          /\ (ret'.op = "delete_user" /\ ret'.args = u) =>
                ret'.err = "UserNotFoundError"
          /\ ret'.op = "get_all_users" => u \notin ReturnedUserIds(ret')
          /\ (/\ ret'.op = "login"
              /\ ret'.args.user_name = users[u].user_name
              /\ Verifies(ret'.args.password, users[u])) =>
                ret'.err # "ok"
      ]_vars

\* C9: once a user is soft-deleted it stays so; get_user_by_id, update_user
\* and delete_user on its id fail with UserNotFoundError; no lookup returns
\* it; get_user_by_username and login on its name fail with UserNotFoundError
\* unless a live user holds that name, and then they answer for the live user.
DeletedUserInvisible ==
    [][\A u \in DeletedUsers :
          /\ u \in DOMAIN users' /\ users'[u].deleted_at # NoTime
          /\ (ret'.op = "get_user_by_id" /\ ret'.args = u) =>
                ret'.err = "UserNotFoundError"
          /\ (ret'.op = "update" /\ ret'.args.user_id = u) =>
                (ret'.err = "UserNotFoundError" /\ users' = users)
          /\ (ret'.op = "delete_user" /\ ret'.args = u) =>
                (ret'.err = "UserNotFoundError" /\ users' = users)
          /\ u \notin ReturnedUserIds(ret')
          /\ (/\ ret'.op \in {"get_user_by_username", "login"}
              /\ (IF ret'.op = "login" THEN ret'.args.user_name ELSE ret'.args)
                     = users[u].user_name) =>
                IF \E v \in LiveUsers : users[v].user_name = users[u].user_name
                THEN ret'.op = "login" /\ ret'.err = "ok" =>
                        /\ AccessSubject(ret'.val) # Str(u)
                        /\ RefreshSubject(ret'.val) # Str(u)
                ELSE ret'.err = "UserNotFoundError"
      ]_vars

\* a login with the name and the password of a soft-deleted user is refused
DeletedUserLoginRefused ==
    /\ ret.op = "login"
    /\ ret.err = "UserNotFoundError"
    /\ \E u \in DeletedUsers :
          /\ users[u].user_name = ret.args.user_name
          /\ Verifies(ret.args.password, users[u])

\* C10: UserService.update with a new password p hands the repository a dto
\* without p and without the confirmation, with a hash that verifies p; when
\* the update succeeds the stored hash of the user verifies p and verifies no
\* other password.
UpdateStoresHashOnly ==
    [][(ret'.op = "update" /\ ret'.args.dto.password # None) =>
          LET p == ret'.args.dto.password
              handed == ret'.args.handed
              u == ret'.args.user_id
          IN /\ handed.password = None
             /\ handed.password_confirm = None
             /\ checkpw(p, handed.password_hash) = "True"
             /\ ret'.err = "ok" =>
                   /\ Verifies(p, users'[u])
                   /\ \A q \in Passwords \ {p} : ~Verifies(q, users'[u])
      ]_vars

(* ------------------------------------------------------------------ *)
(* Properties of the user directory, continued                         *)
(* ------------------------------------------------------------------ *)
\* C11: update_user(id, dto) on a live user, with a new user_name that another
\* live user holds when the statement runs, fails with
\* UserAlreadyExistsError and leaves the users table unchanged.
UpdateNameCollision ==
    [][(ret'.op = "update" /\ ret'.args.user_id \in LiveUsers) =>
          LET u == ret'.args.user_id
              name == ret'.args.handed.user_name
          IN (/\ name # None
              /\ \E v \in LiveUsers \ {u} : users[v].user_name = name) =>
                 (ret'.err = "UserAlreadyExistsError" /\ users' = users)
      ]_vars

(* ------------------------------------------------------------------ *)
(* SpecToken: issued tokens, the clock and the bearer-token dependency *)
(* ------------------------------------------------------------------ *)
\* TokenPayload(**payload): the decoded claims as the request's identity
TokenPayload(payload) == [sub |-> payload.sub, exp |-> payload.exp, type |-> payload.type]

\* request.headers.get("Authorization"): None when the header is absent, else
\* the header's text, kept as its first seven characters and the rest
NoHeader == [prefix |-> None, rest |-> None]

\* get_current_user(cfg, token_type) applied to a request with this header
get_current_user(auth_header, token_type) ==
    /\ IF auth_header = NoHeader \/ auth_header.prefix # "Bearer "
       THEN ret' = Response("get_current_user",
                            [header |-> auth_header, token_type |-> token_type],
                            "401 Missing token", NoVal)
       ELSE LET token == auth_header.rest
                payload == jwt_decode(token, cfg.access_token_secret,
                                      {cfg.hash_algorithm}, now)
            IN IF jwt_raises(token, cfg.access_token_secret, {cfg.hash_algorithm}, now)
               THEN ret' = Response("get_current_user",
                                    [header |-> auth_header, token_type |-> token_type],
                                    "401 Invalid token", NoVal)
               ELSE IF payload.type # token_type
               THEN ret' = Response("get_current_user",
                                    [header |-> auth_header, token_type |-> token_type],
                                    "401 Wrong token type", NoVal)
               ELSE ret' = Response("get_current_user",
                                    [header |-> auth_header, token_type |-> token_type],
                                    "ok", TokenPayload(payload))
    /\ UNCHANGED <<users, posts, likes, views, now, cfg>>

\* a string that is no JWT, and a token an outsider signs with a key of its own
GarbageToken ==
    [claims |-> [sub |-> Str(NoId), exp |-> 0, type |-> None], key |-> None, alg |-> None]

ForgedToken(token) == [token EXCEPT !.key = "outsider_secret"]

\* the clock runs past the expiry of both tokens of a pair
MaxTokenTime == 3

InitToken ==
    /\ users = SeedUsers
    /\ posts = <<>>
    /\ likes = {}
    /\ views = {}
    /\ now = 0
    /\ PoolAtRest
    /\ cfg \in {DefaultConfig, DeployedConfig}
    /\ ret = NoResponse

\* login or register answers with a token pair, which the client keeps
IssueTokens ==
    /\ \E u \in SeedUserIds :
          ret' = Response("generate_token_pair", u, "ok", generate_token_pair(u))
    /\ UNCHANGED <<users, posts, likes, views, now, cfg>>

\* time passes while the client holds the last response
Wait ==
    /\ now < MaxTokenTime
    /\ now' = now + 1
    /\ UNCHANGED <<users, posts, likes, views, cfg, ret>>

\* the tokens a client can put in a header: those of the pair it holds, a
\* forgery of one of them, or garbage
HeldTokens ==
    IF ret.op = "generate_token_pair"
    THEN {ret.val.access_token, ret.val.refresh_token,
          ForgedToken(ret.val.access_token), GarbageToken}
    ELSE {GarbageToken}

Headers ==
    {NoHeader} \cup [prefix : {"Bearer ", "bearer ", "Basic "}, rest : HeldTokens]

GetCurrentUser ==
    \E h \in Headers, token_type \in {"access", "refresh"} : get_current_user(h, token_type)

NextToken ==
    \/ IssueTokens /\ Quiet
    \/ Wait /\ Quiet
    \/ GetCurrentUser /\ Quiet

SpecToken == InitToken /\ [][NextToken]_vars

TokenPairDistinct ==
    [][(ret'.op = "generate_token_pair" /\ now' = now) =>
          LET access == ret'.val.access_token
              refresh == ret'.val.refresh_token
          IN /\ access.claims.sub = Str(ret'.args)
             /\ refresh.claims.sub = Str(ret'.args)
             /\ access.claims.type = "access"
             /\ refresh.claims.type = "refresh"
             /\ access.claims.exp = now + cfg.access_token_expires
             /\ refresh.claims.exp = now + cfg.refresh_token_expires
             /\ access.key # refresh.key
             /\ jwt_raises(access, cfg.refresh_token_secret, {cfg.hash_algorithm}, now)
             /\ jwt_raises(refresh, cfg.access_token_secret, {cfg.hash_algorithm}, now)
      ]_vars

ReturnedRows(r) ==
    IF r.err # "ok" THEN {}
    ELSE IF r.op = "get_post_by_id" THEN {r.val}
    ELSE IF r.op = "get_all_posts" THEN {r.val[i] : i \in DOMAIN r.val}
    ELSE {}

\* the viewer a read was made for
ViewerOf(r) == IF r.op = "get_post_by_id" THEN r.args[2] ELSE r.args.user_id

\* C15: every row get_all_posts or get_post_by_id returns carries
\* likes_count, views_count and replies_count, equal to the number of Like
\* edges, of View edges and of posts replying to the row's post (0 when there
\* are none), whoever the viewer is.
RowCountsExact ==
    \A row \in ReturnedRows(ret) :
        /\ {"likes_count", "views_count", "replies_count"} \subseteq DOMAIN row
        /\ row.likes_count = Cardinality({e \in likes : e[1] = row.id})
        /\ row.views_count = Cardinality({e \in views : e[1] = row.id})
        /\ row.replies_count = Cardinality({q \in PostIds : posts[q].reply_to_id = row.id})

\* C16: every row returned to viewer v carries user_liked and user_viewed,
\* true exactly when the Like edge and the View edge of (post, v) exist, and
\* no post is twice in a result.
ViewerFlagsExact ==
    /\ \A row \in ReturnedRows(ret) :
          /\ {"user_liked", "user_viewed"} \subseteq DOMAIN row
          /\ row.user_liked = (<<row.id, ViewerOf(ret)>> \in likes)
          /\ row.user_viewed = (<<row.id, ViewerOf(ret)>> \in views)
    /\ (ret.op = "get_all_posts" /\ ret.err = "ok") =>
          \A i, j \in DOMAIN ret.val : ret.val[i].id = ret.val[j].id => i = j

\* the ids of a returned list of users, in order
ListedIds(r) == [i \in DOMAIN r.val |-> r.val[i].id]

\* C17: get_all_users returns only live users; two calls in a row with the
\* same limit and offset return the same list in the same order, and the page
\* that follows a page (same limit, offset advanced by limit) repeats none of
\* its users and skips no live user.
ListUsersDeterministic ==
    [][ret'.op = "get_all_users" =>
          LET limit == ret'.args[1]
              offset == ret'.args[2]
              rest == Cardinality(LiveUsers) - ret.args[2]
          IN /\ Range(ListedIds(ret')) \subseteq LiveUsers
             /\ (ret.op = "get_all_users" /\ ret.args = ret'.args) =>
                   ListedIds(ret') = ListedIds(ret)
             /\ (ret.op = "get_all_users" /\ ret.args[1] = limit
                                         /\ offset = ret.args[2] + limit) =>
                   /\ Range(ListedIds(ret')) \cap Range(ListedIds(ret)) = {}
                   /\ Cardinality(Range(ListedIds(ret')) \cup Range(ListedIds(ret))) =
                         IF rest < 0 THEN 0
                         ELSE IF rest < 2 * limit THEN rest ELSE 2 * limit
      ]_vars

(* ------------------------------------------------------------------ *)
(* SpecUpdate: UserRepository.update_user on registered users          *)
(* ------------------------------------------------------------------ *)
\* an UpdateUserDto as the repository receives it
UpdateUserDto(user_name, first_name, last_name, password_hash) ==
    [user_name |-> user_name, first_name |-> first_name, last_name |-> last_name,
     password |-> None, password_confirm |-> None, password_hash |-> password_hash]

\* the dtos handed to update_user: nothing, a rename, a rename with a first
\* name, a last name, a new hash
RepositoryDtos ==
    {UpdateUserDto(None, None, None, NoHash),
     UpdateUserDto("bobby", None, None, NoHash),
     UpdateUserDto("carol", "Jane", None, NoHash),
     UpdateUserDto(None, None, "Roe", NoHash),
     UpdateUserDto(None, None, None, hashpw("Qwerty321!", 1))}

InitUpdate ==
    /\ users = SeedUsers
    /\ posts = <<>>
    /\ likes = {}
    /\ views = {}
    /\ now = 0
    /\ PoolAtRest
    /\ cfg = DeployedConfig
    /\ ret = NoResponse

UpdateUser ==
    \E u \in SomeUserIds, dto \in RepositoryDtos :
        update_user("update_user", [user_id |-> u, dto |-> dto], u, dto)

SoftDeleteUser == \E u \in SeedUserIds : delete_user(u)

NextUpdate ==
    \/ Tick /\ Quiet
    \/ UpdateUser /\ Quiet
    \/ SoftDeleteUser /\ Quiet

SpecUpdate == InitUpdate /\ [][NextUpdate]_vars

\* the fields of a user row that update_user never writes
KeptFields(row) ==
    [status |-> row.status, created_at |-> row.created_at, deleted_at |-> row.deleted_at]

\* the user rows other than u
OtherUsers(us, u) == [v \in DOMAIN us \ {u} |-> us[v]]

\* on an absent or soft-deleted user update_user fails with UserNotFoundError
\* and changes nothing
UpdateMissingUser(r, us, us2) ==
    r.args.user_id \notin {u \in DOMAIN us : us[u].deleted_at = NoTime} =>
        (r.err = "UserNotFoundError" /\ us2 = us)

\* the effect of an update of user u with dto from rows us to rows us2
UpdateEffect(u, dto, us, us2, t) ==
    /\ DOMAIN us2 = DOMAIN us
    /\ OtherUsers(us2, u) = OtherUsers(us, u)
    /\ KeptFields(us2[u]) = KeptFields(us[u])
    /\ us2[u].updated_at = t
    /\ us2[u].user_name = IF dto.user_name # None THEN dto.user_name ELSE us[u].user_name
    /\ us2[u].first_name = IF dto.first_name # None THEN dto.first_name ELSE us[u].first_name
    /\ us2[u].last_name = IF dto.last_name # None THEN dto.last_name ELSE us[u].last_name
    /\ IF dto.password_hash = NoHash
       THEN us2[u].password_hash = us[u].password_hash
       ELSE /\ us2[u].password_hash.pw = dto.password_hash.pw
            /\ us2[u].password_hash.salt = dto.password_hash.salt

\* C18 as stated: update_user on a live user changes exactly the supplied
\* fields among password_hash, user_name, first_name and last_name, always
\* refreshes updated_at and leaves every other field and every other user
\* unchanged; on an absent or soft-deleted user it fails with
\* UserNotFoundError and changes nothing.
UpdateAlwaysApplies ==
    [][ret'.op = "update_user" =>
          /\ UpdateMissingUser(ret', users, users')
          /\ ret'.args.user_id \in LiveUsers =>
                UpdateEffect(ret'.args.user_id, ret'.args.dto, users, users', now)
      ]_vars

\* C18, amended: update_user on a live user, unless the new user_name is the
\* name of another live user, changes exactly the supplied fields among
\* password_hash, user_name, first_name and last_name, refreshes updated_at
\* and leaves every other field and every other user unchanged; when the
\* name is taken, and on an absent or soft-deleted user (UserNotFoundError),
\* it changes nothing.
UpdateFrame ==
    [][ret'.op = "update_user" =>
          LET u == ret'.args.user_id
              dto == ret'.args.dto
          IN /\ UpdateMissingUser(ret', users, users')
             /\ u \in LiveUsers =>
                   IF dto.user_name # None /\ UserNameTaken(dto.user_name, u)
                   THEN ret'.err # "ok" /\ users' = users
                   ELSE ret'.err = "ok" /\ UpdateEffect(u, dto, users, users', now)
      ]_vars

\* a later update of alice alone, with bobby registered, went through
PartialUpdateApplied ==
    /\ ret.op = "update_user" /\ ret.err = "ok"
    /\ ret.args.user_id = 1
    /\ ret.args.dto.first_name = None /\ ret.args.dto.last_name # None
    /\ users[1].updated_at > users[1].created_at
    /\ users[1].first_name = "Alice"
    /\ users[2] = SeedUsers[2]

(* ------------------------------------------------------------------ *)
(* Properties of the post store: edges to missing rows                 *)
(* ------------------------------------------------------------------ *)
\* C19: like_post or view_post with a post_id or a user_id that no row of the
\* store has fails with PostRepositoryError and creates no Like or View edge.
EdgeToMissingRowRefused ==
    [][(/\ ret'.op \in {"like_post", "view_post"}
        /\ (ret'.args[1] \notin PostIds \/ ret'.args[2] \notin UserIds)) =>
          /\ ret'.err = "PostRepositoryError"
          /\ likes' = likes
          /\ views' = views
      ]_vars

\* an existing post liked in the name of a user that does not exist
LikeByMissingUserRefused ==
    /\ ret.op = "like_post" /\ ret.err = "PostRepositoryError"
    /\ ret.args[1] \in PostIds /\ ret.args[2] \notin UserIds
    /\ \A e \in likes \cup views : e[2] \in UserIds

(* ------------------------------------------------------------------ *)
(* SpecValidator: username_validator applied to strings                *)
(* ------------------------------------------------------------------ *)
\* the quantifier {5,30} of the first pattern
UserNameMinLen == 5
UserNameMaxLen == 30

LowerLetters ==
    {"a", "b", "c", "d", "e", "f", "g", "h", "i", "j", "k", "l", "m",
     "n", "o", "p", "q", "r", "s", "t", "u", "v", "w", "x", "y", "z"}
UpperLetters ==
    {"A", "B", "C", "D", "E", "F", "G", "H", "I", "J", "K", "L", "M",
     "N", "O", "P", "Q", "R", "S", "T", "U", "V", "W", "X", "Y", "Z"}
Digits == {"0", "1", "2", "3", "4", "5", "6", "7", "8", "9"}

\* the character class [a-zA-Z0-9_]
WordChars == LowerLetters \cup UpperLetters \cup Digits \cup {"_"}

\* what `$` leaves out of the match: one newline at the very end of the string
BeforeFinalNewline(value) ==
    IF Len(value) > 0 /\ value[Len(value)] = "\n"
    THEN SubSeq(value, 1, Len(value) - 1)
    ELSE value

\* re.match(r"^[a-zA-Z0-9_]{5,30}$", value): `$` matches at the end of the
\* string and also just before a newline that ends it
MatchesWordPattern(value) ==
    \/ /\ Len(value) \in UserNameMinLen..UserNameMaxLen
       /\ \A i \in DOMAIN value : value[i] \in WordChars
    \/ LET body == BeforeFinalNewline(value)
       IN /\ body # value
          /\ Len(body) \in UserNameMinLen..UserNameMaxLen
          /\ \A i \in DOMAIN body : body[i] \in WordChars

\* re.match(r"^[0-9]", value)
MatchesLeadingDigit(value) == Len(value) > 0 /\ value[1] \in Digits

username_validator(value) ==
    IF ~MatchesWordPattern(value)
    THEN [err |-> "ValueError", val |-> NoVal]
    ELSE IF MatchesLeadingDigit(value)
    THEN [err |-> "ValueError", val |-> NoVal]
    ELSE [err |-> "ok", val |-> value]

\* the strings handed to the validator: up to MaxPrefix characters, then one
\* character repeated up to MaxPad times, then at most one more character
MaxPrefix == 2
MaxPad == 31

Alphabet == {"a", "Z", "5", "_", "-", "\n"}
PadChars == {"a", "5", "_"}

Prefixes == UNION {[1..n -> Alphabet] : n \in 0..MaxPrefix}
Suffixes == {<<>>} \cup {<<c>> : c \in Alphabet}

Repeat(c, n) == [i \in 1..n |-> c]

UserNameInputs ==
    {p \o Repeat(c, n) \o s : p \in Prefixes, c \in PadChars, n \in 0..MaxPad, s \in Suffixes}
    \cup {<<"a", "b", "1", "2">>, <<"5", "a", "b", "c", "d">>, <<"a", "b", "c", "d", "e">>}

InitValidator ==
    /\ users = <<>>
    /\ posts = <<>>
    /\ likes = {}
    /\ views = {}
    /\ now = 0
    /\ PoolAtRest
    /\ cfg = DeployedConfig
    /\ \E value \in UserNameInputs : ret = Response("input", value, "ok", NoVal)

ValidateUserName ==
    /\ ret.op = "input"
    /\ LET out == username_validator(ret.args)
       IN ret' = Response("username_validator", ret.args, out.err, out.val)
    /\ UNCHANGED <<users, posts, likes, views, now, cfg>>

NextValidator == ValidateUserName /\ Quiet

SpecValidator == InitValidator /\ [][NextValidator]_vars

\* the language of ^[A-Za-z][A-Za-z0-9_]{4,29}$, the match ending at the end
\* of the string: 5 to 30 word characters, the first one a letter
InUserNameLanguage(value) ==
    /\ Len(value) \in UserNameMinLen..UserNameMaxLen
    /\ \A i \in DOMAIN value : value[i] \in WordChars
    /\ value[1] \in LowerLetters \cup UpperLetters

\* C20: username_validator accepts a string (returning it) exactly when it is
\* 5 to 30 characters long, is made of letters, digits and underscores only
\* and starts with a letter; it rejects every other string.
UserNameLanguageExact ==
    ret.op = "username_validator" =>
        /\ (ret.err = "ok") <=> InUserNameLanguage(ret.args)
        /\ ret.err = "ok" => ret.val = ret.args
        /\ ret.err # "ok" => ret.err = "ValueError"

(* ------------------------------------------------------------------ *)
(* SpecFault: store failures and the except clauses of the repositories *)
(* ------------------------------------------------------------------ *)
\* an exception of the driver: its class with its base classes, and the name
\* of the constraint its message carries
DriverError(mro, constraint) == [mro |-> mro, constraint |-> constraint]

\* failures of the store that are no violation of a foreign key or of a
\* unique constraint: a lost connection, no free connection in the pool, a
\* value the column does not take
StoreFailures ==
    {DriverError(<<"OperationalError", "DatabaseError", "Error">>, None),
     DriverError(<<"PoolTimeout", "OperationalError", "DatabaseError", "Error">>, None),
     DriverError(<<"DataError", "DatabaseError", "Error">>, None),
     DriverError(<<"CheckViolation", "IntegrityError", "DatabaseError", "Error">>, "other")}

\* violations of a unique constraint other than the primary key of the edge
ForeignUniqueViolations ==
    {DriverError(<<"UniqueViolation", "IntegrityError", "DatabaseError", "Error">>, "other")}

\* one `except` clause: the class caught, and the error raised; with pk set,
\* `hit` is raised when the message names pk and `miss` otherwise
Except(catch, pk, hit, miss) == [catch |-> catch, pk |-> pk, hit |-> hit, miss |-> miss]

PostOps == {"create_post", "get_all_posts", "get_post_by_id", "delete_post",
            "view_post", "like_post", "dislike_post"}
UserOps == {"create_user", "get_all_users", "get_user_by_id", "get_user_by_username",
            "update_user", "delete_user"}

\* the except clauses of each repository method, in order, without the last one
ExceptClauses_no_fallback(op) ==
    IF op = "create_post"
    THEN <<Except("ForeignKeyViolation", None, "ReplyToPostDoesNotExistsError", None)>>
    ELSE IF op = "view_post"
    THEN <<Except("ForeignKeyViolation", None, "PostRepositoryError", None),
           Except("UniqueViolation", "pk__views", "PostAlreadyViewedError", "PostRepositoryError")>>
    ELSE IF op = "like_post"
    THEN <<Except("ForeignKeyViolation", None, "PostRepositoryError", None),
           Except("UniqueViolation", "pk__likes", "PostAlreadyLikedError", "PostRepositoryError")>>
    ELSE IF op = "create_user"
    THEN <<Except("UniqueViolation", None, "UserAlreadyExistsError", None)>>
    ELSE <<>>

\* the except clauses of each repository method, in order
ExceptClauses(op) ==
    Append(ExceptClauses_no_fallback(op),
           Except("Error", None,
                  IF op \in PostOps THEN "PostRepositoryError" ELSE "UserRepositoryError",
                  None))

\* the error a method ends with when the driver raises e inside its try block:
\* the first clause whose class is e's or a base of it; e itself when none is
Surfaced(op, e) ==
    LET clauses == ExceptClauses(op)
        caught == {i \in DOMAIN clauses : clauses[i].catch \in Range(e.mro)}
    IN IF caught = {} THEN e.mro[1]
       ELSE LET c == clauses[CHOOSE i \in caught : \A j \in caught : i <= j]
            IN IF c.pk = None \/ c.pk = e.constraint THEN c.hit ELSE c.miss

\* a repository method whose statement the store fails: the transaction is
\* rolled back and the method raises; the response keeps the driver's
\* exception as the cause (`raise ... from e`)
StoreFault ==
    \E op \in PostOps \cup UserOps, e \in StoreFailures \cup ForeignUniqueViolations :
        /\ ret' = [op |-> op, args |-> NoVal, err |-> Surfaced(op, e), val |-> NoVal,
                   raised |-> e]
        /\ UNCHANGED <<users, posts, likes, views, now, cfg>>

NextFault ==
    \/ StoreFault /\ Quiet
    \/ CreatePost /\ Quiet
    \/ LikePost /\ Quiet
    \/ ViewPost /\ Quiet
    \/ DeletePost /\ Quiet

SpecFault == Init /\ [][NextFault]_vars

\* the errors the repositories define
PostRepositoryErrors ==
    {"PostRepositoryError", "PostNotFoundError", "PostAlreadyLikedError",
     "PostAlreadyViewedError", "ReplyToPostDoesNotExistsError"}
UserRepositoryErrors ==
    {"UserRepositoryError", "UserNotFoundError", "UserAlreadyExistsError"}

\* C21: every repository operation ends with its result or with a named error
\* of its repository; a store failure that is no violation of a foreign key
\* or of a unique constraint surfaces as PostRepositoryError from a
\* PostRepository method and as UserRepositoryError from a UserRepository
\* method.
StoreFailureIsGeneric ==
    /\ ret.op \in PostOps => ret.err \in {"ok"} \cup PostRepositoryErrors
    /\ ret.op \in UserOps => ret.err \in {"ok"} \cup UserRepositoryErrors
    /\ ("raised" \in DOMAIN ret /\ ret.raised \in StoreFailures) =>
          ret.err = IF ret.op \in PostOps THEN "PostRepositoryError" ELSE "UserRepositoryError"

\* the pool had no free connection when a post was to be liked
LikeWithoutConnection ==
    /\ ret.op = "like_post"
    /\ "raised" \in DOMAIN ret /\ ret.raised.mro[1] = "PoolTimeout"
    /\ ret.err = "PostRepositoryError"
    /\ posts # <<>>

(* ------------------------------------------------------------------ *)
(* Properties of the user directory: names                             *)
(* ------------------------------------------------------------------ *)
\* C22: no two live users ever have the same user_name; register (create_user)
\* with a user_name that a live user holds fails with UserAlreadyExistsError,
\* adds no user and issues no token.
LiveNamesUnique ==
    [][/\ \A u, v \in {w \in DOMAIN users' : users'[w].deleted_at = NoTime} :
             users'[u].user_name = users'[v].user_name => u = v
       /\ (ret'.op = "register" /\ UserNameTaken(ret'.args.user_name, NoId)) =>
             /\ ret'.err = "UserAlreadyExistsError"
             /\ users' = users
             /\ ret'.val = NoVal
      ]_vars

(* ------------------------------------------------------------------ *)
(* SpecRequest: request bodies validated into RegisterUserDto and      *)
(* UpdateUserDto before the services are called                        *)
(* ------------------------------------------------------------------ *)
\* Field(None, min_length=1, max_length=30) of RegisterUserDto
NameMinLen == 1
NameMaxLen == 30

\* a first name one letter longer than max_length
LongName == "Aaaaaaaaaaaaaaaaaaaaaaaaaaaaaaa"

\* the characters of the strings the requests carry
Spelled(s) ==
    CASE s = "alice" -> <<"a", "l", "i", "c", "e">>
      [] s = "bobby" -> <<"b", "o", "b", "b", "y">>
      [] s = "_aaaa" -> <<"_", "a", "a", "a", "a">>
      [] s = "ab12" -> <<"a", "b", "1", "2">>
      [] s = "5abcd" -> <<"5", "a", "b", "c", "d">>
      [] s = "Qwerty123!" -> <<"Q", "w", "e", "r", "t", "y", "1", "2", "3", "!">>
      [] s = "Qwerty321!" -> <<"Q", "w", "e", "r", "t", "y", "3", "2", "1", "!">>
      [] s = "qwerty" -> <<"q", "w", "e", "r", "t", "y">>
      [] s = "John" -> <<"J", "o", "h", "n">>
      [] s = "J0hn" -> <<"J", "0", "h", "n">>
      [] s = "Doe" -> <<"D", "o", "e">>
      [] s = LongName -> <<"A">> \o Repeat("a", NameMaxLen)

\* re.match(r"^(?=.*[a-zA-Z])(?=.*\d)(?=.*[@$!%*?&]).{5,30}$", value)
password_validator(value) ==
    LET body == BeforeFinalNewline(value)
    IN /\ \E i \in DOMAIN body : body[i] \in LowerLetters \cup UpperLetters
       /\ \E i \in DOMAIN body : body[i] \in Digits
       /\ \E i \in DOMAIN body : body[i] \in {"@", "$", "!", "%", "*", "?", "&"}
       /\ \A i \in DOMAIN body : body[i] # "\n"
       /\ Len(body) \in UserNameMinLen..UserNameMaxLen

\* value.isalpha()
name_validator(value) ==
    /\ value # <<>>
    /\ \A i \in DOMAIN value : value[i] \in LowerLetters \cup UpperLetters

\* the validators UpdateUserDto runs on the fields a body supplies
UpdateUserDtoValid(body) ==
    /\ body.user_name # None => username_validator(Spelled(body.user_name)).err = "ok"
    /\ body.password # None => password_validator(Spelled(body.password))
    /\ \A n \in {body.first_name, body.last_name} : n # None => name_validator(Spelled(n))
    /\ body.password = body.password_confirm

\* the validators of RegisterUserDto: those of UpdateUserDto and the lengths
\* of the names
RegisterUserDtoValid(body) ==
    /\ UpdateUserDtoValid(body)
    /\ \A n \in {body.first_name, body.last_name} :
          n # None => Len(Spelled(n)) \in NameMinLen..NameMaxLen

RegisterBodies ==
    [user_name : {"alice", "_aaaa", "ab12"}, password : {"Qwerty123!", "qwerty"},
     password_confirm : {"Qwerty123!", "qwerty"},
     first_name : {"John", "J0hn", LongName}, last_name : {"Doe"}]

UpdateBodies ==
    [user_name : {None, "bobby", "5abcd"}, first_name : {None, "J0hn", LongName},
     last_name : {None}, password : {None, "Qwerty321!", "qwerty"},
     password_confirm : {None, "Qwerty321!"}, password_hash : {NoHash}]

\* POST /register: the body is validated into a RegisterUserDto, then
\* AuthService.register is called
RegisterRequest ==
    \E body \in RegisterBodies, salt \in Salts :
        /\ Len(users) < MaxUsers
        /\ IF RegisterUserDtoValid(body)
           THEN register(body, salt)
           ELSE /\ ret' = Response("register", body, "ValidationError", NoVal)
                /\ UNCHANGED <<users, posts, likes, views, now, cfg>>

\* PUT /users/{id}: the body is validated into an UpdateUserDto, then
\* UserService.update is called
UpdateRequest ==
    \E u \in 1..MaxUsers, body \in UpdateBodies, salt \in Salts :
        IF UpdateUserDtoValid(body)
        THEN update(u, body, salt)
        ELSE /\ ret' = Response("update", [user_id |-> u, dto |-> body, handed |-> body],
                                "ValidationError", NoVal)
             /\ UNCHANGED <<users, posts, likes, views, now, cfg>>

NextRequest ==
    \/ RegisterRequest /\ Quiet
    \/ UpdateRequest /\ Quiet

SpecRequest == InitUser /\ [][NextRequest]_vars

\* the constraints on the fields of a registration or an update: the username
\* is in its language, the password has 5 to 30 characters with a letter, a
\* digit and a symbol among them, a name has 1 to 30 letters, the password
\* and its confirmation are equal
FieldConstraintsHold(body) ==
    /\ body.user_name # None => InUserNameLanguage(Spelled(body.user_name))
    /\ body.password # None => password_validator(Spelled(body.password))
    /\ \A n \in {body.first_name, body.last_name} :
          n # None => (/\ name_validator(Spelled(n))
                       /\ Len(Spelled(n)) \in NameMinLen..NameMaxLen)
    /\ body.password = body.password_confirm

\* C23: a registration or an update whose input fails a field constraint is
\* rejected with a validation error before the store is touched: the store is
\* unchanged and no token is issued.
InvalidInputRejected ==
    [][(ret'.op \in {"register", "update"}) =>
          LET body == IF ret'.op = "register" THEN ret'.args ELSE ret'.args.dto
          IN ~FieldConstraintsHold(body) =>
                /\ ret'.err = "ValidationError"
                /\ ret'.val = NoVal
                /\ users' = users
      ]_vars

(* ------------------------------------------------------------------ *)
(* Properties of the post store: soft-deleted rows                     *)
(* ------------------------------------------------------------------ *)
\* C24: like_post and view_post create an edge only for a post and a user
\* that both exist and are not soft-deleted when the call is made.
EdgesOnlyToLiveRows ==
    [][ret'.op \in {"like_post", "view_post"} =>
          \A e \in (likes' \ likes) \cup (views' \ views) :
              /\ e[1] \in {p \in PostIds : posts[p].deleted_at = NoTime}
              /\ e[2] \in LiveUsers
      ]_vars

\* C25: create_post with a reply_to_id that refers to a soft-deleted post
\* fails with ReplyToPostDoesNotExistsError and adds no post, as it does for a
\* reply_to_id that refers to no post.
ReplyToDeletedPostRefused ==
    [][ret'.op = "create_post" =>
          LET r == ret'.args.reply_to_id
          IN (r # NoId /\ (r \notin PostIds \/ posts[r].deleted_at # NoTime)) =>
                (ret'.err = "ReplyToPostDoesNotExistsError" /\ posts' = posts)
      ]_vars

(* ------------------------------------------------------------------ *)
(* SpecRace: repository calls of several clients in flight at once     *)
(* ------------------------------------------------------------------ *)
\* the statement of a call, executed by the store in one step.  The calls the
\* clients make: like, view and dislike of post 1 by user 1, and four calls
\* that fail: delete_post by a user that does not own the post, update_user
\* of a user that does not exist, create_user (reached through register) with
\* a name that is taken, a reply to a post that does not exist
Statement(op) ==
    \/ op = "like_post" /\ like_post(1, 1)
    \/ op = "view_post" /\ view_post(1, 1)
    \/ op = "dislike_post" /\ dislike_post(1, 1)
    \/ op = "delete_post" /\ delete_post(1, 2)
    \/ op = "update_user" /\
          update_user("update_user", Len(SeedUsers) + 1, Len(SeedUsers) + 1,
                      UpdateUserDto("bobby", None, None, NoHash))
    \/ op = "create_user" /\
          register([user_name |-> "alice", password |-> "Qwerty123!",
                    password_confirm |-> "Qwerty123!", first_name |-> "John",
                    last_name |-> "Doe"], 1)
    \/ op = "create_post" /\ create_post([text |-> <<"a">>, user_id |-> 1,
                                          reply_to_id |-> Len(posts) + 1])

\* the store with two users and a post of the first one
InitRace ==
    /\ users = SeedUsers
    /\ posts = <<PostRow(<<"a">>, 1, NoId, 0)>>
    /\ likes = {}
    /\ views = {}
    /\ now = 0
    /\ PoolAtRest
    /\ cfg = DefaultConfig
    /\ ret = NoResponse

\* `with self.pool.connection() as conn:` is entered: a connection leaves the pool
EnterCall(c) ==
    \E op \in {"like_post", "view_post", "dislike_post", "delete_post", "update_user",
               "create_user", "create_post"} :
        /\ calls[c].pc = "idle"
        /\ free > 0
        /\ free' = free - 1
        /\ calls' = [calls EXCEPT ![c] = [pc |-> "holding", op |-> op, err |-> None]]
        /\ UNCHANGED <<users, posts, likes, views, now, cfg, ret>>

\* cur.execute(...): the store runs the statement or fails it; the call keeps
\* the outcome
ExecuteCall(c) ==
    /\ calls[c].pc = "holding"
    /\ \/ Statement(calls[c].op)
       \/ \E e \in {f \in StoreFailures : f.mro[1] # "PoolTimeout"} :
             /\ ret' = [op |-> calls[c].op, args |-> NoVal,
                        err |-> Surfaced(calls[c].op, e), val |-> NoVal, raised |-> e]
             /\ UNCHANGED <<users, posts, likes, views, now, cfg>>
    /\ calls' = [calls EXCEPT ![c].pc = "executed", ![c].err = ret'.err]
    /\ free' = free

\* the with block as it would be if it gave the connection back only when the
\* block ends without an exception
ExitWith_unless_raised(c) ==
    free' = IF calls[c].err = "ok" THEN free + 1 ELSE free

\* the with block is left, by return or by an exception: the connection goes
\* back to the pool
ExitWith(c) == free' = free + 1

\* the call ends: its result or its error reaches the caller
ExitCall(c) ==
    /\ calls[c].pc = "executed"
    /\ ExitWith(c)
    /\ calls' = [calls EXCEPT ![c].pc = "done"]
    /\ UNCHANGED <<users, posts, likes, views, now, cfg, ret>>

NextRace ==
    \/ \E c \in Clients : EnterCall(c)
    \/ \E c \in Clients : ExecuteCall(c)
    \/ \E c \in Clients : ExitCall(c)

SpecRace == InitRace /\ [][NextRace]_vars

\* C26: however the like_post, dislike_post and view_post calls of the clients
\* on one (post_id, user_id) interleave, the store never gets a second Like or
\* View edge for the pair: the like_post calls that succeed are at most one
\* more than the dislike_post calls, at most one view_post call succeeds, and
\* when no dislike_post ran, of the like_post (view_post) calls that ran
\* exactly one succeeded and every other failed with PostAlreadyLikedError
\* (PostAlreadyViewedError); a call runs its statement once.
OneWinnerPerEdge ==
    LET \* the calls of operation op whose statement the store has run
        Ran(op) == {c \in Clients : /\ calls[c].op = op
                                    /\ calls[c].pc \in {"executed", "done"}
                                    /\ calls[c].err # "PostRepositoryError"}
        won(op) == {c \in Ran(op) : calls[c].err = "ok"}
    IN /\ Cardinality(won("like_post")) <= 1 + Cardinality(Ran("dislike_post"))
       /\ Cardinality(won("view_post")) <= 1
       /\ (Ran("like_post") # {} /\ Ran("dislike_post") = {}) =>
             /\ Cardinality(won("like_post")) = 1
             /\ \A c \in Ran("like_post") \ won("like_post") :
                   calls[c].err = "PostAlreadyLikedError"
       /\ Ran("view_post") # {} =>
             /\ Cardinality(won("view_post")) = 1
             /\ \A c \in Ran("view_post") \ won("view_post") :
                   calls[c].err = "PostAlreadyViewedError"
       /\ (won("like_post") # {} /\ Ran("dislike_post") = {}) => <<1, 1>> \in likes
       /\ won("view_post") # {} => <<1, 1>> \in views

\* two like_post calls held a connection at the same time; one has won and
\* the other was refused, and neither has returned yet
TwoLikesInFlight ==
    /\ \A c \in Clients : calls[c].op = "like_post" /\ calls[c].pc = "executed"
    /\ \E c \in Clients : calls[c].err = "ok"
    /\ \E c \in Clients : calls[c].err = "PostAlreadyLikedError"
    /\ free = PoolSize - Cardinality(Clients)

\* C27: a repository call that ends in an error (not found, already exists,
\* already liked, already viewed, reply target missing, or the generic error)
\* leaves users, posts, likes and views as they were when its statement
\* started, and gives its connection back: at every moment the connections
\* out of the pool are exactly those of the calls inside their with block.
FailedCallLeavesNoTrace ==
    [][/\ \A c \in Clients :
             (calls[c].pc = "holding" /\ calls'[c].pc = "executed"
                 /\ calls'[c].err # "ok") =>
                UNCHANGED <<users, posts, likes, views>>
       /\ free' = PoolSize - Cardinality({c \in Clients :
                                            calls'[c].pc \in {"holding", "executed"}})
      ]_vars

\* every client's call has returned with an error, among them a not-found and
\* the generic error of a failed statement, and the pool is whole again
AllCallsFailedAndReturned ==
    /\ \A c \in Clients : calls[c].pc = "done" /\ calls[c].err # "ok"
    /\ \E c \in Clients : calls[c].op = "delete_post" /\ calls[c].err = "PostNotFoundError"
    /\ \E c \in Clients : calls[c].op = "update_user" /\ calls[c].err = "UserRepositoryError"
    /\ free = PoolSize

(* ------------------------------------------------------------------ *)
(* SpecSession: a client keeps its token pair while the store changes  *)
(* ------------------------------------------------------------------ *)
\* a request of another client gives a user a new password (update_user's SET
\* list) or soft-deletes the user (delete_user's UPDATE); its response goes to
\* that client, and this client keeps the token pair it holds
ChangedElsewhere ==
    /\ \E u \in LiveUsers :
          \/ LET dto == UpdateUserDto(None, None, None, hashpw("Qwerty321!", 1))
             IN users' = [users EXCEPT
                             ![u] = UpdatedUserRow(@, dto, decode(dto.password_hash))]
          \/ users' = [users EXCEPT ![u].deleted_at = now]
    /\ UNCHANGED <<posts, likes, views, now, cfg, ret>>

NextSession ==
    \/ IssueTokens /\ Quiet
    \/ Wait /\ Quiet
    \/ ChangedElsewhere /\ Quiet
    \/ GetCurrentUser /\ Quiet

SpecSession == InitToken /\ [][NextSession]_vars

\* C28: an access token that generate_token_pair minted is accepted by
\* get_current_user (expected type access) at every time before its exp claim
\* and at no time from exp on, whatever happened to its user in between: a new
\* password, a soft-delete, another login.
AccessTokenValidUntilExpiry ==
    [][(ret'.op = "get_current_user" /\ now' = now /\ users' = users) =>
          LET h == ret'.args.header
              token == h.rest
          IN (/\ h # NoHeader
              /\ h.prefix = "Bearer "
              /\ ret'.args.token_type = "access"
              /\ token.claims.type = "access"
              /\ token.key = cfg.access_token_secret
              /\ token.alg = cfg.hash_algorithm) =>
                (ret'.err = "ok" <=> now < token.claims.exp)
      ]_vars

\* C30: whatever the two secrets are, an unexpired token of a minted pair is
\* accepted by get_current_user when the expected type is the token's own type,
\* with the subject it was minted for, and refused when the expected type is
\* the other one.
OwnTypeAcceptedOtherRefused ==
    [][(ret'.op = "get_current_user" /\ now' = now) =>
          LET h == ret'.args.header
              token == h.rest
              secret == IF token.claims.type = "access" THEN cfg.access_token_secret
                        ELSE cfg.refresh_token_secret
          IN (/\ h # NoHeader
              /\ h.prefix = "Bearer "
              /\ token.claims.type \in {"access", "refresh"}
              /\ token.key = secret
              /\ token.alg = cfg.hash_algorithm
              /\ now < token.claims.exp) =>
                IF ret'.args.token_type = token.claims.type
                THEN ret'.err = "ok" /\ ret'.val.sub = token.claims.sub
                ELSE ret'.err # "ok" /\ ret'.val = NoVal
      ]_vars

\* C29: after any creations and deletions of posts, the replies_count in the
\* feed row of a live post equals the number of rows get_all_posts returns
\* for the thread of that post (reply_to_id the post, no search, no owner,
\* offset 0, a limit that no thread exceeds).
RepliesCountMatchesThread ==
    \A row \in ReturnedRows(ret) :
        /\ "replies_count" \in DOMAIN row
        /\ \A ids \in FeedIdLists([search |-> NoSearch, owner_id |-> NoId, user_id |-> 1,
                                   reply_to_id |-> row.id, limit |-> MaxFeedPosts,
                                   offset |-> 0]) :
              row.replies_count = Len(ids)

====
